---- MODULE Spec2Model ----
(***************************************************************************)
(* A state-machine model of the function-level pipeline of the repository: *)
(* the program executor unsafe_execute (src/session.py) with the           *)
(* process-wide state it changes, and the round loop Session.run_session   *)
(* that drives it.                                                         *)
(*                                                                         *)
(* Strings of the program are TLA+ strings.  A Python program handed to    *)
(* exec() is represented by what it does when run: a record                *)
(* [kind, msg], see Programs.                                              *)
(***************************************************************************)
EXTENDS Integers, Sequences, FiniteSets, TLC

(***************************************************************************)
(* Bounds.                                                                 *)
(***************************************************************************)
\* max_round of a Session is drawn from 0..MaxRound
MaxRound == 3

(***************************************************************************)
(* Threads of the Python process.  Python runs signal handlers in the main *)
(* thread only, and signal.signal may be called in the main thread only.   *)
(***************************************************************************)
MainThread == "main"
WorkerThread == "worker"
Threads == {MainThread, WorkerThread}

\* Python's None
None == "None"
\* the value of an operation that has not been disabled
Real == "real"

\* the attributes reliability_guard sets to None (session.py 201-217):
\* shutil.rmtree, os.rmdir, os.chdir, builtins.exit, builtins.quit,
\* subprocess.Popen, shutil.move, shutil.chown
GuardedOps == {"rmtree", "rmdir", "chdir", "exit", "quit", "Popen", "move", "chown"}
\* the three attributes unsafe_execute keeps in locals (session.py 145-147)
SavedOps == {"rmtree", "rmdir", "chdir"}

\* the directory the process is in before any call
HomeDir == "home"

(***************************************************************************)
(* Result strings of unsafe_execute (session.py 163-169).                  *)
(***************************************************************************)
PassedMsg == "Code Test Passed."
AssertPrefix == "failed with AssertionError. "
TimedOutMsg == "timed out"
\* the ValueError of signal.signal outside the main thread
NotMainThreadMsg == "signal only works in main thread of the main interpreter"
NoResult == "<no result>"

(***************************************************************************)
(* The programs exec() is given, by behaviour.                             *)
(*   pass       completes before the deadline without raising              *)
(*   assert     raises AssertionError(msg)                                  *)
(*   error      raises an Exception other than AssertionError whose str()  *)
(*              is msg (the SyntaxError of an invalid program included)    *)
(*   exit       raises a BaseException that is no Exception (SystemExit,   *)
(*              KeyboardInterrupt) whose str() is msg                      *)
(*   badstr     raises an exception whose __str__ itself raises            *)
(*   loop       runs past the deadline; an exception raised in it          *)
(*              propagates                                                 *)
(*   catch_pass runs past the deadline inside try/except BaseException and *)
(*              completes once the except clause has run                   *)
(*   catch_loop runs past the deadline inside try/except BaseException and *)
(*              goes on running after the except clause                    *)
(***************************************************************************)
Programs ==
    { [kind |-> "pass", msg |-> ""],
      [kind |-> "assert", msg |-> "m"],
      [kind |-> "error", msg |-> "m"],
      [kind |-> "error", msg |-> PassedMsg],
      [kind |-> "exit", msg |-> "m"],
      [kind |-> "badstr", msg |-> ""],
      [kind |-> "loop", msg |-> ""],
      [kind |-> "catch_pass", msg |-> ""],
      [kind |-> "catch_loop", msg |-> ""] }

NoProgram == [kind |-> "none", msg |-> ""]

\* the programs that do not finish by themselves before the deadline
RunsPastDeadline(p) == p.kind \in {"loop", "catch_pass", "catch_loop"}

\* the exception (or none) that is propagating out of the timed block
NoException == [type |-> "none", msg |-> ""]
TimeoutException == [type |-> "TimeoutException", msg |-> "Timed out!"]

VARIABLES
    \* ---- process-wide state
    ops,        \* GuardedOps -> {Real, None}: the module attributes
    cwd,        \* the current directory: HomeDir or a temporary directory
    dirs,       \* the temporary directories that exist
    ndirs,      \* how many temporary directories were ever created
    timer,      \* ITIMER_REAL: "off", or the thread whose call armed it
    handler,    \* the SIGALRM handler: "default" or "signal_handler"
    \* ---- one frame of unsafe_execute per thread
    pc,         \* where the thread is in unsafe_execute
    prog,       \* the program of the call
    precall,    \* ops when the call started
    saved,      \* the locals rmtree, rmdir, chdir (session.py 145-147)
    tmp,        \* the directory create_tempdir made for the call (0: none)
    prev,       \* the local cwd of chdir() (session.py 285)
    pending,    \* the exception leaving the timed block
    caught,     \* the program has swallowed the TimeoutException
    result,     \* the local result
    \* ---- Session.run_session
    max_round,
    spc,        \* where run_session is
    plan,
    report,
    is_init,
    code,
    naivecode,
    method_name,
    tests,
    i,
    session_history,   \* [plan, rounds]: rounds maps a round index to its record
    calls,      \* the Role Client calls and unsafe_execute calls made so far
    \* ---- Coder
    history_message,   \* self.history_message: the messages kept by the coder
    prompt,     \* the message list of the coder's latest request to the model
    \* ---- one call of utils.build_test_method
    bpc,        \* "none": no call; "called": arguments given; "returned"
    test_list,  \* the argument test_list: a sequence of statements
    test_imports,   \* the argument test_imports: a sequence of import lines
    check_name, \* the argument method_name
    test_method,    \* the text returned
    \* ---- core/backend.py: one call of adjust_max_tokens, truncate_messages
    \* or call_chatgpt
    bkpc,       \* where the call is
    messages,   \* the argument messages (prompt)
    model,      \* the argument model
    max_tokens, \* the argument max_tokens (desired_max_tokens)
    truncated,  \* what truncate_messages returned
    adjusted_prompt,        \* call_chatgpt's local, adjust_max_tokens' result
    adjusted_max_tokens,    \* call_chatgpt's local, adjust_max_tokens' result
    num_completions,        \* call_chatgpt's local
    attempt,    \* the loop variable i of call_chatgpt
    completions,    \* len(completions)
    requests,   \* how many requests were issued
    waits,      \* the seconds slept in the rate-limited attempts that
                \* immediately precede, the latest three at most
    chat_result,    \* how many completions call_chatgpt returned
    \* ---- one call of utils.find_method_name
    fpc,        \* "none": no call; "called": argument given; "returned"
    parsed,     \* what ast.parse gives for the argument code
    found,      \* the name returned
    \* ---- ProjectSession.run_project_session
    ppc,        \* where run_project_session is
    project_max_round,  \* self.max_round of the ProjectSession
    round_num,  \* the loop variable of the development loop
    project_files,      \* self.project_files
    current_max_tokens, \* self.current_max_tokens
    quality_report,     \* the local quality_report of the round
    project_history,    \* session_history: a round index -> its round_N entry
    implement_calls,    \* how many times developer.implement_project ran
    feedback_history    \* developer.feedback_history

envvars == <<ops, cwd, dirs, ndirs, timer, handler>>
framevars == <<pc, prog, precall, saved, tmp, prev, pending, caught, result>>
sessionvars == <<max_round, spc, plan, report, is_init, code, naivecode,
                 method_name, tests, i, session_history, calls,
                 history_message, prompt>>
harnessvars == <<bpc, test_list, test_imports, check_name, test_method>>
backendvars == <<bkpc, messages, model, max_tokens, truncated, adjusted_prompt,
                 adjusted_max_tokens, num_completions, attempt, completions,
                 requests, waits, chat_result>>
findvars == <<fpc, parsed, found>>
projectvars == <<ppc, project_max_round, round_num, project_files,
                 current_max_tokens, quality_report, project_history,
                 implement_calls, feedback_history>>
libvars == <<backendvars, findvars, projectvars>>
\* what no function of core/backend.py touches
nonbackendvars == <<envvars, framevars, sessionvars, harnessvars, findvars,
                    projectvars>>
vars == <<envvars, framevars, sessionvars, harnessvars, libvars>>

AllReal == [o \in GuardedOps |-> Real]
AllNone == [o \in GuardedOps |-> None]
NothingSaved == [o \in SavedOps |-> "unset"]

(***************************************************************************)
(* Leaving "with create_tempdir()" (session.py 249-253, 280-292): the      *)
(* finally clause of chdir() calls os.chdir(cwd), then                     *)
(* TemporaryDirectory.__exit__ removes the directory with shutil.rmtree,   *)
(* which uses os.rmdir.  Both are looked up when called: a disabled one    *)
(* (None) raises TypeError and leaves the directory as it is.              *)
(***************************************************************************)
ChdirWorks == ops["chdir"] = Real
CleanupWorks == ops["rmtree"] = Real /\ ops["rmdir"] = Real

\* a with-exit that goes back to the previous directory and leaves the
\* temporary directory on disk
LeaveTempdir_KeepsDir(t, opsNow) ==
    /\ cwd' = IF opsNow["chdir"] = Real THEN prev[t] ELSE cwd
    /\ dirs' = dirs

\* the with-exit on the ops as they are after the step that leads to it
LeaveTempdir(t, opsNow) ==
    /\ cwd' = IF opsNow["chdir"] = Real THEN prev[t] ELSE cwd
    /\ dirs' = IF opsNow["rmtree"] = Real /\ opsNow["rmdir"] = Real
               THEN dirs \ {tmp[t]} ELSE dirs

LeaveTempdirOk(opsNow) ==
    /\ opsNow["chdir"] = Real
    /\ opsNow["rmtree"] = Real
    /\ opsNow["rmdir"] = Real

(***************************************************************************)
(* unsafe_execute, step by step.                                           *)
(***************************************************************************)

\* with create_tempdir(): tempfile.TemporaryDirectory() makes a fresh
\* directory; chdir(dirname) remembers os.getcwd() and calls os.chdir.
create_tempdir(t) ==
    /\ pc[t] = "enter"
    /\ ndirs' = ndirs + 1
    /\ tmp' = [tmp EXCEPT ![t] = ndirs + 1]
    /\ prev' = [prev EXCEPT ![t] = cwd]
    /\ IF ChdirWorks
       THEN /\ cwd' = ndirs + 1
            /\ dirs' = dirs \cup {ndirs + 1}
            /\ pc' = [pc EXCEPT ![t] = "save"]
       ELSE \* os.chdir is None: TypeError; the directory is removed only
            \* if rmtree and rmdir are callable
            /\ cwd' = cwd
            /\ dirs' = IF CleanupWorks THEN dirs ELSE dirs \cup {ndirs + 1}
            /\ pc' = [pc EXCEPT ![t] = "raised"]
    /\ UNCHANGED <<ops, timer, handler, prog, precall, saved, pending, caught,
                   result, sessionvars, harnessvars, libvars>>

\* rmtree = shutil.rmtree; rmdir = os.rmdir; chdir = os.chdir
save_ops(t) ==
    /\ pc[t] = "save"
    /\ saved' = [saved EXCEPT ![t] = [o \in SavedOps |-> ops[o]]]
    /\ pc' = [pc EXCEPT ![t] = "guard"]
    /\ UNCHANGED <<envvars, prog, precall, tmp, prev, pending, caught, result,
                   sessionvars, harnessvars, libvars>>

\* reliability_guard(): every guarded attribute becomes None
reliability_guard(t) ==
    /\ pc[t] = "guard"
    /\ ops' = AllNone
    /\ pc' = [pc EXCEPT ![t] = "timelimit"]
    /\ UNCHANGED <<cwd, dirs, ndirs, timer, handler, prog, precall, saved, tmp,
                   prev, pending, caught, result, sessionvars, harnessvars, libvars>>

\* with time_limit(timeout): signal.setitimer(ITIMER_REAL, seconds) arms the
\* process-wide timer, then signal.signal installs the handler.  Outside the
\* main thread signal.signal raises ValueError before the try of time_limit
\* is entered: the timer stays armed and the except BaseException clause of
\* unsafe_execute gets the error.
time_limit_enter(t) ==
    /\ pc[t] = "timelimit"
    /\ timer' = t
    /\ IF t = MainThread
       THEN /\ handler' = "signal_handler"
            /\ pending' = pending
            /\ pc' = [pc EXCEPT ![t] = "exec"]
       ELSE /\ handler' = handler
            /\ pending' = [pending EXCEPT
                             ![t] = [type |-> "Exception", msg |-> NotMainThreadMsg]]
            /\ pc' = [pc EXCEPT ![t] = "classify"]
    /\ UNCHANGED <<ops, cwd, dirs, ndirs, prog, precall, saved, tmp, prev,
                   caught, result, sessionvars, harnessvars, libvars>>

\* what exec(check_program, exec_globals) raises when the program ends by
\* itself
Raised(p) ==
    CASE p.kind = "pass" -> NoException
      [] p.kind = "assert" -> [type |-> "AssertionError", msg |-> p.msg]
      [] p.kind = "error" -> [type |-> "Exception", msg |-> p.msg]
      [] p.kind = "exit" -> [type |-> "BaseException", msg |-> p.msg]
      [] p.kind = "badstr" -> [type |-> "BadStr", msg |-> p.msg]
      [] OTHER -> NoException

\* exec(...) of a program that ends by itself before the deadline
exec_program(t) ==
    /\ pc[t] = "exec"
    /\ ~RunsPastDeadline(prog[t])
    /\ pending' = [pending EXCEPT ![t] = Raised(prog[t])]
    /\ pc' = [pc EXCEPT ![t] = "finally"]
    /\ UNCHANGED <<envvars, prog, precall, saved, tmp, prev, caught, result,
                   sessionvars, harnessvars, libvars>>

\* signal_handler: the timer expires (it is one-shot) and SIGALRM is
\* delivered.  A timer armed by the main thread's own call expires only while
\* its program runs past the deadline; a timer left armed by a worker thread
\* expires at any moment.  With no handler installed SIGALRM ends the
\* process; otherwise the handler raises TimeoutException in the main thread,
\* wherever the main thread is.
signal_handler ==
    /\ timer /= "off"
    /\ timer = MainThread =>
         /\ pc[MainThread] = "exec"
         /\ RunsPastDeadline(prog[MainThread])
    /\ timer' = "off"
    /\ IF handler = "default"
       THEN /\ pc' = [t \in Threads |-> "killed"]
            /\ UNCHANGED <<pending, caught, cwd, dirs>>
       ELSE IF pc[MainThread] = "exec"
       THEN IF prog[MainThread].kind = "catch_loop"
            THEN \* swallowed; the program goes on, nothing will interrupt it
                 /\ caught' = [caught EXCEPT ![MainThread] = TRUE]
                 /\ UNCHANGED <<pc, pending, cwd, dirs>>
            ELSE IF prog[MainThread].kind = "catch_pass"
            THEN \* swallowed; the program then completes
                 /\ caught' = [caught EXCEPT ![MainThread] = TRUE]
                 /\ pending' = [pending EXCEPT ![MainThread] = NoException]
                 /\ pc' = [pc EXCEPT ![MainThread] = "finally"]
                 /\ UNCHANGED <<cwd, dirs>>
            ELSE /\ pending' = [pending EXCEPT ![MainThread] = TimeoutException]
                 /\ pc' = [pc EXCEPT ![MainThread] = "finally"]
                 /\ UNCHANGED <<caught, cwd, dirs>>
       ELSE IF pc[MainThread] = "finally"
       THEN /\ pending' = [pending EXCEPT ![MainThread] = TimeoutException]
            /\ UNCHANGED <<pc, caught, cwd, dirs>>
       ELSE IF pc[MainThread] \in {"classify", "restore", "exit"}
       THEN \* raised outside the try statement: it leaves unsafe_execute
            /\ LeaveTempdir(MainThread, ops)
            /\ pc' = [pc EXCEPT ![MainThread] = "raised"]
            /\ UNCHANGED <<pending, caught>>
       ELSE \* raised in the caller of unsafe_execute
            UNCHANGED <<pc, pending, caught, cwd, dirs>>
    /\ UNCHANGED <<ops, ndirs, handler, prog, precall, saved, tmp, prev, result,
                   sessionvars, harnessvars, libvars>>

\* a time_limit without try/finally: setitimer(ITIMER_REAL, 0) runs only
\* when the block ends without an exception
time_limit_exit_NoFinally(t) ==
    /\ pc[t] = "finally"
    /\ timer' = IF pending[t] = NoException THEN "off" ELSE timer
    /\ pc' = [pc EXCEPT ![t] = "classify"]
    /\ UNCHANGED <<ops, cwd, dirs, ndirs, handler, prog, precall, saved, tmp,
                   prev, pending, caught, result, sessionvars, harnessvars, libvars>>

\* the finally clause of time_limit: signal.setitimer(ITIMER_REAL, 0)
time_limit_exit(t) ==
    /\ pc[t] = "finally"
    /\ timer' = "off"
    /\ pc' = [pc EXCEPT ![t] = "classify"]
    /\ UNCHANGED <<ops, cwd, dirs, ndirs, handler, prog, precall, saved, tmp,
                   prev, pending, caught, result, sessionvars, harnessvars, libvars>>

\* the string the try statement of unsafe_execute assigns to result
ResultOf(e) ==
    CASE e.type = "none" -> PassedMsg
      [] e.type = "AssertionError" -> AssertPrefix \o e.msg
      [] e.type = "TimeoutException" -> TimedOutMsg
      [] OTHER -> e.msg

\* result = ... of the try statement and its except clauses.  Formatting an
\* exception whose __str__ raises, raises inside the except clause: the
\* assignment and the restoring statements after it are skipped and the
\* exception leaves through "with create_tempdir()".
except_clauses(t) ==
    /\ pc[t] = "classify"
    /\ IF pending[t].type = "BadStr"
       THEN /\ LeaveTempdir(t, ops)
            /\ pc' = [pc EXCEPT ![t] = "raised"]
            /\ result' = result
       ELSE /\ result' = [result EXCEPT ![t] = ResultOf(pending[t])]
            /\ pc' = [pc EXCEPT ![t] = "restore"]
            /\ UNCHANGED <<cwd, dirs>>
    /\ UNCHANGED <<ops, ndirs, timer, handler, prog, precall, saved, tmp, prev,
                   pending, caught, sessionvars, harnessvars, libvars>>

\* shutil.rmtree = rmtree; os.rmdir = rmdir; os.chdir = chdir
restore_ops(t) ==
    /\ pc[t] = "restore"
    /\ ops' = [o \in GuardedOps |-> IF o \in SavedOps THEN saved[t][o] ELSE ops[o]]
    /\ pc' = [pc EXCEPT ![t] = "exit"]
    /\ UNCHANGED <<cwd, dirs, ndirs, timer, handler, prog, precall, saved, tmp,
                   prev, pending, caught, result, sessionvars, harnessvars, libvars>>

\* return result: "with create_tempdir()" is left
leave_tempdir(t) ==
    /\ pc[t] = "exit"
    /\ LeaveTempdir(t, ops)
    /\ pc' = [pc EXCEPT ![t] = IF LeaveTempdirOk(ops) THEN "returned" ELSE "raised"]
    /\ UNCHANGED <<ops, ndirs, timer, handler, prog, precall, saved, tmp, prev,
                   pending, caught, result, sessionvars, harnessvars, libvars>>

\* the frame of a new call of unsafe_execute in thread t with program p
NewFrame(t, p) ==
    /\ pc' = [pc EXCEPT ![t] = "enter"]
    /\ prog' = [prog EXCEPT ![t] = p]
    /\ precall' = [precall EXCEPT ![t] = ops]
    /\ saved' = [saved EXCEPT ![t] = NothingSaved]
    /\ pending' = [pending EXCEPT ![t] = NoException]
    /\ caught' = [caught EXCEPT ![t] = FALSE]
    /\ result' = [result EXCEPT ![t] = NoResult]
    /\ UNCHANGED <<tmp, prev>>

\* the steps of unsafe_execute in thread t
unsafe_execute(t) ==
    \/ create_tempdir(t)
    \/ save_ops(t)
    \/ reliability_guard(t)
    \/ time_limit_enter(t)
    \/ exec_program(t)
    \/ time_limit_exit(t)
    \/ except_clauses(t)
    \/ restore_ops(t)
    \/ leave_tempdir(t)

(***************************************************************************)
(* The texts the Role Clients return.                                      *)
(***************************************************************************)
\* the error sentinel of Analyst.analyze, Coder.implement and Tester.test
ErrorSentinel == "error"

\* what Analyst.analyze returns: a plan, or the sentinel
Plans == {"a plan", ErrorSentinel}

\* what Coder.implement returns: code with a top-level function, code with
\* none, the empty text (code_truncate found no code), or the sentinel
Candidates == {"def f(): pass", "def g(): pass", "x = 1", "", ErrorSentinel}

\* what Tester.test returns: a fenced block of tests (~ stands for the
\* backquote of the fence), or the sentinel
TesterOutputs == {"~~~assert f()~~~", ErrorSentinel}

\* ast.parse(code).body, as the names of its top-level statements: the name
\* of a FunctionDef, "stmt" for any other statement
ast_parse(c) ==
    CASE c = "def f(): pass" -> <<"f">>
      [] c = "def g(): pass" -> <<"g">>
      [] c = "x = 1" -> <<"stmt">>
      [] c = ErrorSentinel -> <<"stmt">>
      [] OTHER -> <<>>

IsFunctionDef(n) == n /= "stmt"

\* what stands for a code that ast.parse rejects (or that is no string)
ParseError == <<"SyntaxError">>

\* the try block with the first function taken instead of the last
method_name_in_First(body) ==
    LET function_defs == SelectSeq(body, IsFunctionDef)
    IN  IF body = ParseError \/ function_defs = <<>> THEN None
        ELSE function_defs[1]

\* the try block of find_method_name on what ast.parse gives; except: None
method_name_in(body) ==
    IF body = ParseError THEN None
    ELSE LET function_defs == SelectSeq(body, IsFunctionDef)
             n == Len(function_defs)
         IN  IF n = 0 THEN None
             ELSE IF n = 1 THEN function_defs[1]
             ELSE IF function_defs[n] /= "main" THEN function_defs[n]
             ELSE function_defs[n - 1]

\* utils.find_method_name
find_method_name(c) == method_name_in(ast_parse(c))

\* the statements of the parsed codes: the function definitions f, g and
\* main, and any statement that is not a FunctionDef
Nodes == {"f", "g", "main", "stmt"}

\* the longest parsed code given to find_method_name
MaxBody == 3

\* find_method_name(code) is called and returns
call_find_method_name ==
    /\ fpc = "called"
    /\ found' = method_name_in(parsed)
    /\ fpc' = "returned"
    /\ UNCHANGED <<envvars, framevars, sessionvars, harnessvars, backendvars,
                   projectvars, parsed>>

\* the blank test made on repr(code), which is never empty
Strip_Repr(c) == "'" \o c \o "'"

\* str.strip
Strip(c) == IF c \in {"", " "} THEN "" ELSE c

ReportPrefix == "The compilation output of the preceding code is: "

\* a dict with no key
EmptyDict == [k \in {} |-> None]
\* every record written under the key of round 0
Put_Round0(d, k, v) == [x \in DOMAIN d \cup {0} |-> IF x = 0 THEN v ELSE d[x]]

\* d[k] = v
Put(d, k, v) == [x \in DOMAIN d \cup {k} |-> IF x = k THEN v ELSE d[x]]

\* one more entry of the log of external calls
Logged(op, arg, ret) ==
    Append(calls, [op |-> op, round |-> i, arg |-> arg, ret |-> ret])

(***************************************************************************)
(* Session.run_session                                                     *)
(***************************************************************************)

\* plan = self.analyst.analyze(); report = plan; is_init = True;
\* session_history["plan"] = plan; code = ""; the for loop is entered
analyst_analyze ==
    /\ spc = "plan"
    /\ \E p \in Plans :
         /\ plan' = p
         /\ report' = p
         /\ session_history' = [session_history EXCEPT !.plan = p]
         /\ calls' = Logged("analyze", "", p)
    /\ is_init' = TRUE
    /\ code' = ""
    /\ i' = 0
    /\ spc' = IF max_round = 0 THEN "finish" ELSE "implement"
    /\ UNCHANGED <<libvars, harnessvars, envvars, framevars, max_round, naivecode, method_name, tests,
                   history_message, prompt>>

(***************************************************************************)
(* Coder (roles/coder.py).  A message is a role and a content; a content   *)
(* is the name of the template it was formatted from (or "code" for the    *)
(* coder's own answer) and the text put into it.                           *)
(***************************************************************************)
Message(role, content) == [role |-> role, content |-> content]

\* construct_system_message(requirement, PYTHON_DEVELOPER, TEAM), appended by
\* __init__ with the default role
SystemMessage == <<"system_message", "requirement">>

\* construct_with_report keeping no earlier instruction: the instruction
\* pair replaces what follows the system message
construct_with_report_Fresh(h, rep, init) ==
    IF rep /= ""
    THEN << h[1],
            Message("user", <<IF init THEN "INSTRUCTPLAN" ELSE "INSTRUCTREPORT",
                              Strip(rep)>>),
            Message("user", <<"INSTRUCTCODE", "requirement">>) >>
    ELSE h

\* Coder.construct_with_report: the history after the call
construct_with_report(h, rep, init) ==
    IF rep /= ""
    THEN Append(Append(h, Message("user",
                             <<IF init THEN "INSTRUCTPLAN" ELSE "INSTRUCTREPORT",
                               Strip(rep)>>)),
                Message("user", <<"INSTRUCTCODE", "requirement">>))
    ELSE h

\* Coder.implement after itf.run returned the code c: the last message is
\* dropped and the code appended as the assistant's message; when itf.run
\* raised (implement returns the sentinel) the history stays as sent
history_after_implement(sent, c) ==
    IF c = ErrorSentinel THEN sent
    ELSE Append(SubSeq(sent, 1, Len(sent) - 1), Message("assistant", <<"code", c>>))

\* the candidate is taken whether or not it has a method name
Accept_Always(m, c, cur) == c

\* if method_name: code = naivecode
Accept(m, c, cur) == IF m /= None THEN c ELSE cur

\* the blank test made on the first round only when the round index is 1
IsFirstRound_One(r) == r = 1

\* if i == 0
IsFirstRound(r) == r = 0

\* the pass test made on the report sentence, as run_coder_tester does
CodeTestPassed_OnReport(answer_report) == ReportPrefix \o answer_report = PassedMsg

\* answer_report == "Code Test Passed."
CodeTestPassed(answer_report) == answer_report = PassedMsg

\* the last-round test one round late
IsLastRound_OffByOne(r) == r = max_round

\* i == self.max_round-1
IsLastRound(r) == r = max_round - 1

\* naivecode = self.coder.implement(report, is_init) up to the call of the
\* tester: the candidate is accepted if it has a method name; an empty code
\* or the last round ends the loop
coder_implement ==
    /\ spc = "implement"
    /\ \E c \in Candidates :
         LET m == find_method_name(c)
             accepted == Accept(m, c, code)
             sent == construct_with_report(history_message, report, is_init)
         IN  /\ naivecode' = c
             /\ method_name' = m
             /\ calls' = Logged("implement", report, c)
             /\ prompt' = sent
             /\ history_message' = history_after_implement(sent, c)
             /\ IF Strip(accepted) = ""
                THEN /\ IF IsFirstRound(i)
                        THEN /\ code' = ErrorSentinel
                             /\ spc' = "finish"
                        ELSE IF (i - 1) \in DOMAIN session_history.rounds
                        THEN /\ code' = session_history.rounds[i - 1].code
                             /\ spc' = "finish"
                        ELSE \* KeyError
                             /\ code' = accepted
                             /\ spc' = "crashed"
                     /\ session_history' = session_history
                ELSE IF IsLastRound(i)
                THEN /\ code' = accepted
                     /\ session_history' =
                          [session_history EXCEPT
                             !.rounds = Put(@, i, [code |-> accepted])]
                     /\ spc' = "finish"
                ELSE /\ code' = accepted
                     /\ session_history' = session_history
                     /\ spc' = "test"
    /\ UNCHANGED <<libvars, harnessvars, envvars, framevars, max_round, plan, report, is_init, tests, i>>

\* tests = self.tester.test(code); test_report = code_truncate(tests);
\* unsafe_execute(before_func+code+'\n'+test_report+'\n'+'check(...)', '')
\* is called.  What the composed program does is decided by the texts of the
\* roles (before_func, the code, the tests cut out of the tester's answer):
\* any program.
tester_test ==
    /\ spc = "test"
    /\ pc[MainThread] = "idle"
    /\ \E r \in TesterOutputs, p \in Programs :
         /\ tests' = r
         /\ calls' = Logged("test", code, r)
         /\ NewFrame(MainThread, p)
    /\ spc' = "execute"
    /\ UNCHANGED <<libvars, harnessvars, envvars, max_round, plan, report, is_init, code, naivecode,
                   method_name, i, session_history, history_message, prompt>>

\* unsafe_execute has returned answer_report: the report and the round are
\* recorded, then the loop ends on the sentinel or on a pass, or goes on
record_round ==
    /\ spc = "execute"
    /\ pc[MainThread] = "returned"
    /\ LET answer_report == result[MainThread]
           rep == ReportPrefix \o answer_report
       IN  /\ report' = rep
           /\ is_init' = FALSE
           /\ session_history' =
                [session_history EXCEPT
                   !.rounds = Put(@, i, [code |-> code, report |-> rep])]
           /\ calls' = Logged("execute", method_name, answer_report)
           /\ IF plan = ErrorSentinel \/ code = ErrorSentinel \/ rep = ErrorSentinel
              THEN /\ code' = ErrorSentinel
                   /\ spc' = "finish"
                   /\ i' = i
              ELSE IF CodeTestPassed(answer_report)
              THEN /\ code' = code
                   /\ spc' = "finish"
                   /\ i' = i
              ELSE /\ code' = code
                   /\ i' = i + 1
                   /\ spc' = IF i + 1 < max_round THEN "implement" ELSE "finish"
    /\ pc' = [pc EXCEPT ![MainThread] = "idle"]
    /\ UNCHANGED <<libvars, harnessvars, envvars, prog, precall, saved, tmp, prev, pending, caught,
                   result, max_round, plan, naivecode, method_name, tests,
                   history_message, prompt>>

\* an exception left unsafe_execute: run_session has no try statement, the
\* exception leaves run_session
run_session_raise ==
    /\ spc = "execute"
    /\ pc[MainThread] = "raised"
    /\ spc' = "crashed"
    /\ UNCHANGED <<libvars, harnessvars, envvars, framevars, max_round, plan, report, is_init, code,
                   naivecode, method_name, tests, i, session_history, calls,
                   history_message, prompt>>

\* the three clear_history() calls and return code, self.session_history
run_session_return ==
    /\ spc = "finish"
    /\ spc' = "done"
    /\ UNCHANGED <<libvars, harnessvars, envvars, framevars, max_round, plan, report, is_init, code,
                   naivecode, method_name, tests, i, session_history, calls,
                   history_message, prompt>>

(***************************************************************************)
(* Session.run_coder_tester (session.py 81-121).  The method has no local  *)
(* method_name and the module no global of that name: evaluating           *)
(* f'check({method_name})' at line 104 raises NameError, so the lines      *)
(* after it never run.                                                     *)
(***************************************************************************)

\* report = ""; is_init = True; code = ""; the for loop is entered
ct_start ==
    /\ spc = "ct_start"
    /\ report' = ""
    /\ is_init' = TRUE
    /\ code' = ""
    /\ i' = 0
    /\ spc' = IF max_round = 0 THEN "finish" ELSE "ct_implement"
    /\ UNCHANGED <<libvars, harnessvars, envvars, framevars, max_round, plan,
                   naivecode, method_name, tests, session_history, calls,
                   history_message, prompt>>

\* naivecode = self.coder.implement(report, is_init) up to the call of the
\* tester, or up to the second implement call of round 0
ct_implement ==
    /\ spc = "ct_implement"
    /\ \E c \in Candidates :
         LET accepted == IF find_method_name(c) /= None THEN c ELSE code
             sent == construct_with_report(history_message, report, is_init)
         IN  /\ naivecode' = c
             /\ calls' = Logged("implement", report, c)
             /\ prompt' = sent
             /\ history_message' = history_after_implement(sent, c)
             /\ code' = accepted
             /\ IF Strip(accepted) = ""
                THEN \* a later round never has an empty code: no round
                     \* after round 0 is reached
                     /\ spc' = IF i = 0 THEN "ct_again" ELSE "crashed"
                     /\ session_history' = session_history
                ELSE IF i = max_round - 1
                THEN /\ session_history' =
                          [session_history EXCEPT
                             !.rounds = Put(@, i, [code |-> accepted])]
                     /\ spc' = "finish"
                ELSE /\ session_history' = session_history
                     /\ spc' = "ct_test"
    /\ UNCHANGED <<libvars, harnessvars, envvars, framevars, max_round, plan,
                   report, is_init, method_name, tests, i>>

\* code = self.coder.implement(report, is_init=True); break
ct_implement_again ==
    /\ spc = "ct_again"
    /\ \E c \in Candidates :
         LET sent == construct_with_report(history_message, report, TRUE)
         IN  /\ code' = c
             /\ calls' = Logged("implement", report, c)
             /\ prompt' = sent
             /\ history_message' = history_after_implement(sent, c)
    /\ spc' = "finish"
    /\ UNCHANGED <<libvars, harnessvars, envvars, framevars, max_round, plan,
                   report, is_init, naivecode, method_name, tests, i,
                   session_history>>

\* tests = self.tester.test(code); test_report = code_truncate(tests); the
\* argument of unsafe_execute is evaluated: NameError
ct_test ==
    /\ spc = "ct_test"
    /\ \E r \in TesterOutputs :
         /\ tests' = r
         /\ calls' = Logged("test", code, r)
    /\ spc' = "crashed"
    /\ UNCHANGED <<libvars, harnessvars, envvars, framevars, max_round, plan,
                   report, is_init, code, naivecode, method_name, i,
                   session_history, history_message, prompt>>

\* the three clear_history() calls and return code, self.session_history
ct_return ==
    /\ spc = "finish"
    /\ spc' = "done"
    /\ UNCHANGED <<libvars, harnessvars, envvars, framevars, max_round, plan,
                   report, is_init, code, naivecode, method_name, tests, i,
                   session_history, calls, history_message, prompt>>

(***************************************************************************)
(* utils.build_test_method.  A text is a sequence of tokens: the newline,  *)
(* the tab, and pieces of text that hold neither.                          *)
(***************************************************************************)
NL == "\n"
TAB == "\t"

\* the longest test_list given to build_test_method
MaxTests == 2

\* the values of method_name
EntryPoints == {"f", "g"}

\* the test statements: two of one line and one of two lines
TestStatements ==
    { <<"assert f(1) == 1">>,
      <<"assert f(2) == 2">>,
      <<"for x in [1, 2]:", NL, "    assert f(x)">> }

\* the values of test_imports: empty (a false value), one line, two lines
ImportLists == { <<>>, <<"import math">>, <<"import math", "import re">> }

\* the sequences over S of length at most n
SeqsUpTo(S, n) == UNION { [1..k -> S] : k \in 0..n }

\* "\n".join(lines), each line one token
RECURSIVE JoinLines(_)
JoinLines(lines) ==
    IF lines = <<>> THEN <<>>
    ELSE IF Len(lines) = 1 THEN <<lines[1]>>
    ELSE <<lines[1], NL>> \o JoinLines(Tail(lines))

\* the for loop: test_method += '\t' + test + "\n" for each test
RECURSIVE AppendTests(_, _)
AppendTests(text, tl) ==
    IF tl = <<>> THEN text
    ELSE AppendTests(text \o <<TAB>> \o tl[1] \o <<NL>>, Tail(tl))

\* text.strip("\n")
RECURSIVE StripNewlines(_)
StripNewlines(text) ==
    IF text = <<>> THEN text
    ELSE IF text[1] = NL THEN StripNewlines(Tail(text))
    ELSE IF text[Len(text)] = NL
    THEN StripNewlines(SubSeq(text, 1, Len(text) - 1))
    ELSE text

\* build_test_method without the case of the empty test list
build_test_method_NoEmptyCase(tl, imports, name) ==
    StripNewlines(AppendTests(<<"def check(", name, "):", NL>>, tl))

\* utils.build_test_method: the text built from the imports (lines 68-72)
\* is overwritten by the assignment of line 73
build_test_method(tl, imports, name) ==
    LET from_imports == IF imports /= <<>>
                        THEN JoinLines(imports) \o <<NL>>
                        ELSE <<>>
        def_line == <<"def check(", name, "):", NL>>
    IN  IF Len(tl) = 0
        THEN def_line \o <<TAB, "return True", NL>>
        ELSE StripNewlines(AppendTests(def_line, tl))

\* build_test_method(test_list, test_imports, method_name) is called and
\* returns
call_build_test_method ==
    /\ bpc = "called"
    /\ test_method' = build_test_method(test_list, test_imports, check_name)
    /\ bpc' = "returned"
    /\ UNCHANGED <<envvars, framevars, sessionvars, libvars, test_list,
                   test_imports, check_name>>

(***************************************************************************)
(* core/backend.py.  A message is its role, its content and the number of  *)
(* tokens tiktoken gives for its role and content together.                *)
(***************************************************************************)
\* num_tokens += 4 for every message
PerMessageTokens == 4
\* num_tokens += 2: the reply priming
ReplyTokens == 2
\* model_limits.get(model, 16385)
DefaultLimit == 16385
\* the margin of 100 tokens
Margin == 100
\* min(512, max_context_length // 4)
TruncatedOutput == 512
\* max(adjusted_max_tokens, 256)
MinOutput == 256
\* num_completions_batch_size
BatchSize == 10
\* range(20 * (...))
AttemptsPerBatch == 20
\* min(i**2, 60)
BackoffCap == 60
\* if i < 3
ReduceAttempts == 3

\* the longest message list given to adjust_max_tokens and truncate_messages
MaxMessages == 3

Min(a, b) == IF a <= b THEN a ELSE b
Max(a, b) == IF a >= b THEN a ELSE b

Models == {"gpt-4", "gpt-3.5-turbo-0613"}

\* model_limits.get(model, 16385)
ModelLimit(m) ==
    CASE m = "gpt-4" -> 8192
      [] m = "gpt-3.5-turbo-0613" -> 4096
      [] OTHER -> DefaultLimit

\* the messages the lists are made of
MessagePool ==
    { [role |-> "system", content |-> "s", tokens |-> 10],
      [role |-> "user", content |-> "a", tokens |-> 4000],
      [role |-> "assistant", content |-> "b", tokens |-> 3900],
      [role |-> "user", content |-> "c", tokens |-> 100] }

\* the values of max_tokens
TokenValues == {128, 4096}

\* count_tokens(messages)
RECURSIVE SumTokens(_)
SumTokens(msgs) ==
    IF msgs = <<>> THEN 0
    ELSE PerMessageTokens + msgs[1].tokens + SumTokens(Tail(msgs))

count_tokens(msgs) == SumTokens(msgs) + ReplyTokens

\* list.insert(index, x) for the two indices truncate_messages uses: 0, and
\* -1 (before the last element; at the front of an empty list)
ListInsert(list, index, x) ==
    IF index = 0 \/ list = <<>> THEN <<x>> \o list
    ELSE SubSeq(list, 1, Len(list) - 1) \o <<x>> \o <<list[Len(list)]>>

\* -1 if truncated and truncated[0].get('role') == 'system' else 0
InsertIndex(list) ==
    IF list /= <<>> /\ list[1].role = "system" THEN -1 ELSE 0

\* the loop of truncate_messages over reversed(remaining_messages)
RECURSIVE TruncateLoop(_, _, _, _)
TruncateLoop(kept, current_tokens, remaining, limit) ==
    IF remaining = <<>> THEN kept
    ELSE LET message == remaining[Len(remaining)]
             message_tokens == count_tokens(<<message>>)
         IN  IF current_tokens + message_tokens <= limit
             THEN TruncateLoop(ListInsert(kept, InsertIndex(kept), message),
                               current_tokens + message_tokens,
                               SubSeq(remaining, 1, Len(remaining) - 1),
                               limit)
             ELSE kept

\* truncate_messages(messages, max_tokens)
truncate_messages(msgs, limit) ==
    IF msgs = <<>> THEN msgs
    ELSE LET system_first == msgs[1].role = "system"
             kept == IF system_first THEN <<msgs[1]>> ELSE <<>>
             remaining == IF system_first THEN Tail(msgs) ELSE msgs
         IN  TruncateLoop(kept, count_tokens(kept), remaining, limit)

\* max(adjusted_max_tokens, 256)
AtLeastMinOutput(n) == Max(n, MinOutput)

\* adjust_max_tokens(messages, model, desired_max_tokens): the pair returned
adjust_max_tokens(msgs, m, desired) ==
    LET max_context_length == ModelLimit(m)
        input_tokens == count_tokens(msgs)
        available_tokens == max_context_length - input_tokens - Margin
    IN  IF available_tokens <= 0
        THEN LET adjusted == Min(TruncatedOutput, max_context_length \div 4)
             IN  <<truncate_messages(msgs, max_context_length - adjusted - Margin),
                   adjusted>>
        ELSE <<msgs, AtLeastMinOutput(Min(desired, available_tokens))>>

\* adjust_max_tokens is called and returns
call_adjust_max_tokens ==
    /\ bkpc = "called"
    /\ LET r == adjust_max_tokens(messages, model, max_tokens)
       IN  /\ adjusted_prompt' = r[1]
           /\ adjusted_max_tokens' = r[2]
    /\ bkpc' = "adjusted"
    /\ UNCHANGED <<nonbackendvars, messages, model,
                   max_tokens, truncated, num_completions, attempt, completions,
                   requests, waits, chat_result>>

\* truncate_messages is called and returns
call_truncate_messages ==
    /\ bkpc = "called"
    /\ truncated' = truncate_messages(messages, max_tokens)
    /\ bkpc' = "truncated"
    /\ UNCHANGED <<nonbackendvars, messages, model,
                   max_tokens, adjusted_prompt, adjusted_max_tokens,
                   num_completions, attempt, completions, requests, waits,
                   chat_result>>

(***************************************************************************)
(* call_chatgpt (core/backend.py 103-158).  Each iteration of the loop     *)
(* issues one request; the API answers with the requested number of        *)
(* choices or with an error.                                               *)
(***************************************************************************)
\* the values of majority_at (None gives num_completions = 1)
Majorities == {1, 11}

\* the prompts: a short one, one that leaves fewer than 256 tokens, one that
\* is longer than every context
ChatPrompts ==
    LET S == [role |-> "system", content |-> "s", tokens |-> 10]
        A == [role |-> "user", content |-> "a", tokens |-> 4000]
        B == [role |-> "assistant", content |-> "b", tokens |-> 3900]
        C == [role |-> "user", content |-> "c", tokens |-> 100]
    IN  { <<S, C>>, <<S, A, B>>, <<S, A, B, A, C>> }

\* a budget of 20 attempts for every completion
RequestBudget_PerCompletion(n) == AttemptsPerBatch * (n + 1)

\* 20 * (num_completions // num_completions_batch_size + 1)
RequestBudget(n) == AttemptsPerBatch * (n \div BatchSize + 1)

\* min(i**2, 60)
Backoff(a) == Min(a * a, BackoffCap)

\* the latest three elements of a sequence
LastThree(q) == IF Len(q) <= 3 THEN q ELSE SubSeq(q, Len(q) - 2, Len(q))

\* adjust_max_tokens(prompt, model, max_tokens), num_completions and the
\* empty list of completions: the loop is entered
chat_adjust ==
    /\ bkpc = "start"
    /\ LET r == adjust_max_tokens(messages, model, max_tokens)
       IN  /\ adjusted_prompt' = r[1]
           /\ adjusted_max_tokens' = r[2]
    /\ attempt' = 0
    /\ completions' = 0
    /\ bkpc' = "loop"
    /\ UNCHANGED <<nonbackendvars, messages, model,
                   max_tokens, truncated, num_completions, requests, waits,
                   chat_result>>

\* the request succeeds: the choices are appended, and the completions are
\* returned once there are enough
chat_success ==
    /\ bkpc = "loop"
    /\ attempt < RequestBudget(num_completions)
    /\ LET requested_completions ==
               Min(BatchSize, num_completions - completions)
           got == completions + requested_completions
       IN  /\ completions' = got
           /\ IF got >= num_completions
              THEN /\ bkpc' = "returned"
                   /\ chat_result' = Min(got, num_completions)
                   /\ attempt' = attempt
              ELSE /\ bkpc' = "loop"
                   /\ chat_result' = chat_result
                   /\ attempt' = attempt + 1
    /\ requests' = requests + 1
    /\ waits' = <<>>
    /\ UNCHANGED <<nonbackendvars, messages, model,
                   max_tokens, truncated, adjusted_prompt, adjusted_max_tokens,
                   num_completions>>

\* BadRequestError for the context length: max_tokens is halved, the prompt
\* adjusted again, and the loop continues
chat_context_length ==
    /\ bkpc = "loop"
    /\ attempt < RequestBudget(num_completions)
    /\ LET r == adjust_max_tokens(adjusted_prompt, model,
                                  Max(adjusted_max_tokens \div 2, MinOutput))
       IN  /\ adjusted_prompt' = r[1]
           /\ adjusted_max_tokens' = r[2]
    /\ attempt' = attempt + 1
    /\ requests' = requests + 1
    /\ waits' = <<>>
    /\ UNCHANGED <<nonbackendvars, messages, model,
                   max_tokens, truncated, num_completions, completions, bkpc,
                   chat_result>>

\* any other BadRequestError is raised again
chat_bad_request ==
    /\ bkpc = "loop"
    /\ attempt < RequestBudget(num_completions)
    /\ bkpc' = "raised"
    /\ requests' = requests + 1
    /\ UNCHANGED <<nonbackendvars, messages, model,
                   max_tokens, truncated, adjusted_prompt, adjusted_max_tokens,
                   num_completions, attempt, completions, waits, chat_result>>

\* RateLimitError: time.sleep(min(i**2, 60)), then the next iteration
chat_rate_limit ==
    /\ bkpc = "loop"
    /\ attempt < RequestBudget(num_completions)
    /\ waits' = LastThree(Append(waits, Backoff(attempt)))
    /\ attempt' = attempt + 1
    /\ requests' = requests + 1
    /\ UNCHANGED <<nonbackendvars, messages, model,
                   max_tokens, truncated, adjusted_prompt, adjusted_max_tokens,
                   num_completions, completions, bkpc, chat_result>>

\* any other exception: in the first three iterations max_tokens is halved
\* and the loop continues, afterwards the exception is raised again
chat_other_error ==
    /\ bkpc = "loop"
    /\ attempt < RequestBudget(num_completions)
    /\ IF attempt < ReduceAttempts
       THEN /\ adjusted_max_tokens' = Max(adjusted_max_tokens \div 2, MinOutput)
            /\ attempt' = attempt + 1
            /\ bkpc' = "loop"
            /\ waits' = <<>>
       ELSE /\ bkpc' = "raised"
            /\ UNCHANGED <<adjusted_max_tokens, attempt, waits>>
    /\ requests' = requests + 1
    /\ UNCHANGED <<nonbackendvars, messages, model,
                   max_tokens, truncated, adjusted_prompt, num_completions,
                   completions, chat_result>>

\* the loop ends: raise RuntimeError('Failed to call GPT API ...')
chat_exhausted ==
    /\ bkpc = "loop"
    /\ attempt = RequestBudget(num_completions)
    /\ bkpc' = "raised"
    /\ UNCHANGED <<nonbackendvars, messages, model,
                   max_tokens, truncated, adjusted_prompt, adjusted_max_tokens,
                   num_completions, attempt, completions, requests, waits,
                   chat_result>>

(***************************************************************************)
(* Specifications.                                                         *)
(***************************************************************************)
InitEnv ==
    /\ ops = AllReal
    /\ cwd = HomeDir
    /\ dirs = {}
    /\ ndirs = 0
    /\ timer = "off"
    /\ handler = "default"

InitFrames ==
    /\ prog = [t \in Threads |-> NoProgram]
    /\ precall = [t \in Threads |-> AllReal]
    /\ saved = [t \in Threads |-> NothingSaved]
    /\ tmp = [t \in Threads |-> 0]
    /\ prev = [t \in Threads |-> HomeDir]
    /\ pending = [t \in Threads |-> NoException]
    /\ caught = [t \in Threads |-> FALSE]
    /\ result = [t \in Threads |-> NoResult]

InitSession ==
    /\ plan = ""
    /\ report = ""
    /\ is_init = TRUE
    /\ code = ""
    /\ naivecode = ""
    /\ method_name = None
    /\ tests = ""
    /\ i = 0
    /\ session_history = [plan |-> None, rounds |-> EmptyDict]
    /\ calls = <<>>
    /\ history_message = <<Message("user", SystemMessage)>>
    /\ prompt = <<>>

\* no call of build_test_method
InitHarness ==
    /\ bpc = "none"
    /\ test_list = <<>>
    /\ test_imports = <<>>
    /\ check_name = ""
    /\ test_method = <<>>

\* ---------------------------------------------------------------------
\* ProjectSession (project_session.py) and its tools (tools/simple_tools.py).
\* Scores are counted in hundredths: 100 is the score 1.0.

FullScore == 100
RequiredPenalty == 20
AvoidPenalty == 10
QualityThreshold == 700
BaseMaxTokens == 1024
MinRoundTokens == 512
MinRetryTokens == 256

\* dict.get(key, default)
Get(d, key, default) == IF key \in DOMAIN d THEN d[key] ELSE default

\* A file of a project, by what the tools measure on its content:
\* blank (empty or whitespace), missing (required elements that are absent),
\* avoided (discouraged constructs it uses), issues (what the automated
\* tests find in it).
CleanFile == [blank |-> FALSE, missing |-> 0, avoided |-> 0, issues |-> 0]
FlawedFile == [blank |-> FALSE, missing |-> 1, avoided |-> 1, issues |-> 2]
BlankFile == [blank |-> TRUE, missing |-> 0, avoided |-> 0, issues |-> 0]

\* the dictionaries implement_project can return: the files of a project
NoFiles == <<>>
CleanProject == <<CleanFile>>
FlawedProject == <<FlawedFile, BlankFile>>
Projects == {NoFiles, CleanProject, FlawedProject}

\* QualityChecker.check_quality: the score of one file
check_quality(f) ==
    [score |-> Max(0, FullScore - RequiredPenalty * f.missing
                                - AvoidPenalty * f.avoided)]

RECURSIVE TotalScore(_)
TotalScore(files) ==
    IF files = <<>> THEN 0
    ELSE Get(check_quality(Head(files)), "score", 0) + TotalScore(Tail(files))

\* QualityChecker._check_multiple_files, which "comprehensive_check" runs
check_multiple_files(files) ==
    IF files = <<>>
    THEN [status |-> "error", message |-> "No files provided"]
    ELSE LET checked == SelectSeq(files, LAMBDA f : ~f.blank)
             file_count == Len(checked)
             total_score == TotalScore(checked)
         IN  [status |-> "success",
              overall_score |-> IF file_count > 0
                                THEN total_score \div file_count ELSE 0,
              files_checked |-> file_count]

RECURSIVE AllIssues(_)
AllIssues(files) ==
    IF files = <<>> THEN 0 ELSE Head(files).issues + AllIssues(Tail(files))

\* AutomatedTester._run_comprehensive_tests: the keys of the result
run_comprehensive_tests(files) ==
    [passed |-> AllIssues(files) = 0,
     issues |-> AllIssues(files)]

\* AutomatedTester.run_tests, which "full_suite" runs
run_tests(files) ==
    IF files # <<>> THEN run_comprehensive_tests(files)
    ELSE [error |-> "No code or files provided for testing"]

\* what ProjectTester.test_project returns: the model's report, or "error"
TestReports ==
    {"All tests passed - no issues found.", "No issues found.",
     "2 issues found", "error"}

\* "all tests passed" in test_report.lower() or
\* "no issues found" in test_report.lower()
traditional_passed(test_report) ==
    test_report \in {"All tests passed - no issues found.", "No issues found."}

automated_passed(automated_test_results) ==
    Get(automated_test_results, "overall_status", None) = "passed"

quality_good(report_) == Get(report_, "overall_score", 0) >= QualityThreshold

\* ProjectSession._adjust_tokens_for_round: the new self.current_max_tokens
adjust_tokens_for_round(current) == Max(BaseMaxTokens, MinRoundTokens)

\* the retry of a round after a context-length error halves the tokens
retry_tokens(current) == Max(current \div 2, MinRetryTokens)

\* no ProjectSession
InitProject ==
    /\ ppc = "none"
    /\ project_max_round = 0
    /\ round_num = 0
    /\ project_files = NoFiles
    /\ current_max_tokens = 0
    /\ quality_report = [status |-> "none"]
    /\ project_history = <<>>
    /\ implement_calls = 0
    /\ feedback_history = <<>>

\* no call of a function of core/backend.py
InitBackend ==
    /\ bkpc = "none"
    /\ messages = <<>>
    /\ model = ""
    /\ max_tokens = 0
    /\ truncated = <<>>
    /\ adjusted_prompt = <<>>
    /\ adjusted_max_tokens = 0
    /\ num_completions = 0
    /\ attempt = 0
    /\ completions = 0
    /\ requests = 0
    /\ waits = <<>>
    /\ chat_result = 0

\* no call of find_method_name
InitFind ==
    /\ fpc = "none"
    /\ parsed = <<>>
    /\ found = None

InitLib == InitBackend /\ InitFind /\ InitProject

\* one Session, constructed with some max_round, in a single-threaded process
Init ==
    /\ InitEnv
    /\ InitFrames
    /\ pc = [t \in Threads |-> IF t = MainThread THEN "idle" ELSE "absent"]
    /\ InitSession
    /\ InitHarness
    /\ InitLib
    /\ max_round \in 0..MaxRound
    /\ spc = "plan"

Next ==
    \/ analyst_analyze
    \/ coder_implement
    \/ tester_test
    \/ unsafe_execute(MainThread)
    \/ signal_handler
    \/ record_round
    \/ run_session_raise
    \/ run_session_return

Spec == Init /\ [][Next]_vars

\* a thread calls unsafe_execute(code, report) with some program
call_unsafe_execute(t) ==
    /\ pc[t] = "idle"
    /\ \E p \in Programs : NewFrame(t, p)
    /\ UNCHANGED <<envvars, sessionvars, harnessvars, libvars>>

\* no Session: the main thread and a worker thread each call unsafe_execute
\* once, at any time
InitConc ==
    /\ InitEnv
    /\ InitFrames
    /\ pc = [t \in Threads |-> "idle"]
    /\ InitSession
    /\ InitHarness
    /\ InitLib
    /\ max_round = 0
    /\ spc = "none"

NextConc ==
    \/ \E t \in Threads : call_unsafe_execute(t)
    \/ \E t \in Threads : unsafe_execute(t)
    \/ signal_handler

SpecConc == InitConc /\ [][NextConc]_vars

\* no Session and no execution: build_test_method is called once, with any
\* arguments
InitBuild ==
    /\ InitEnv
    /\ InitFrames
    /\ pc = [t \in Threads |-> "absent"]
    /\ InitSession
    /\ max_round = 0
    /\ spc = "none"
    /\ bpc = "called"
    /\ test_list \in SeqsUpTo(TestStatements, MaxTests)
    /\ test_imports \in ImportLists
    /\ check_name \in EntryPoints
    /\ test_method = <<>>
    /\ InitLib

NextBuild == call_build_test_method

SpecBuild == InitBuild /\ [][NextBuild]_vars

\* no Session: nothing but the modelled functions is called
InitIdle ==
    /\ InitEnv
    /\ InitFrames
    /\ pc = [t \in Threads |-> "absent"]
    /\ InitSession
    /\ max_round = 0
    /\ spc = "none"
    /\ InitHarness
    /\ InitProject

\* adjust_max_tokens or truncate_messages is called once, with any arguments
InitTokens ==
    /\ InitIdle
    /\ bkpc = "called"
    /\ messages \in SeqsUpTo(MessagePool, MaxMessages)
    /\ model \in Models
    /\ max_tokens \in TokenValues
    /\ InitFind
    /\ truncated = <<>>
    /\ adjusted_prompt = <<>>
    /\ adjusted_max_tokens = 0
    /\ num_completions = 0
    /\ attempt = 0
    /\ completions = 0
    /\ requests = 0
    /\ waits = <<>>
    /\ chat_result = 0

NextTokens ==
    \/ call_adjust_max_tokens
    \/ call_truncate_messages

SpecTokens == InitTokens /\ [][NextTokens]_vars

\* one Session, constructed with some max_round, whose run_coder_tester is
\* called
InitCoderTester ==
    /\ InitEnv
    /\ InitFrames
    /\ pc = [t \in Threads |-> IF t = MainThread THEN "idle" ELSE "absent"]
    /\ InitSession
    /\ InitHarness
    /\ InitLib
    /\ max_round \in 0..MaxRound
    /\ spc = "ct_start"

NextCoderTester ==
    \/ ct_start
    \/ ct_implement
    \/ ct_implement_again
    \/ ct_test
    \/ ct_return

SpecCoderTester == InitCoderTester /\ [][NextCoderTester]_vars

\* call_chatgpt is called once, with any prompt, model, max_tokens and
\* majority_at; the API answers each request in any way
InitChat ==
    /\ InitIdle
    /\ bkpc = "start"
    /\ messages \in ChatPrompts
    /\ model \in Models
    /\ max_tokens \in TokenValues
    /\ num_completions \in Majorities
    /\ InitFind
    /\ truncated = <<>>
    /\ adjusted_prompt = <<>>
    /\ adjusted_max_tokens = 0
    /\ attempt = 0
    /\ completions = 0
    /\ requests = 0
    /\ waits = <<>>
    /\ chat_result = 0

NextChat ==
    \/ chat_adjust
    \/ chat_success
    \/ chat_context_length
    \/ chat_bad_request
    \/ chat_rate_limit
    \/ chat_other_error
    \/ chat_exhausted

SpecChat == InitChat /\ [][NextChat]_vars

\* find_method_name is called once, with a code that parses to any body or
\* does not parse
InitFindCall ==
    /\ InitIdle
    /\ InitBackend
    /\ fpc = "called"
    /\ parsed \in SeqsUpTo(Nodes, MaxBody) \cup {ParseError}
    /\ found = None

NextFind == call_find_method_name

SpecFind == InitFindCall /\ [][NextFind]_vars

\* the call goes on: each request is answered and the loop takes its next
\* step
SpecChatFair == SpecChat /\ WF_vars(NextChat)

(***************************************************************************)
(* Claims about unsafe_execute.                                            *)
(***************************************************************************)

\* C1: for every program, unsafe_execute returns a result string and no
\* exception propagates to its caller.
C1_NoExceptionEscapes ==
    /\ pc[MainThread] /= "raised"
    /\ pc[MainThread] = "returned" => result[MainThread] /= NoResult

\* the result the classification rule of the specification gives a program:
\* a program that runs past the deadline is a timeout, one that ends by
\* itself is classified by what it raised
ExpectedResult(p) ==
    IF RunsPastDeadline(p) THEN TimedOutMsg
    ELSE CASE p.kind = "pass" -> PassedMsg
           [] p.kind = "assert" -> AssertPrefix \o p.msg
           [] OTHER -> p.msg

\* C2: each call is classified by its outcome: completes without raising ->
\* 'Code Test Passed.'; AssertionError with message m -> 'failed with
\* AssertionError. m'; the deadline expires -> 'timed out'; any other error
\* e -> the string of e.
C2_Classification ==
    pc[MainThread] = "returned" =>
        result[MainThread] = ExpectedResult(prog[MainThread])

\* C3: for every program that does not finish by itself before the deadline,
\* whatever exception handling it contains, unsafe_execute returns (it is
\* never left running the program with no deadline pending) and its result
\* is 'timed out'.
C3_TimeoutAlways ==
    RunsPastDeadline(prog[MainThread]) =>
        /\ pc[MainThread] = "exec" => timer /= "off"
        /\ pc[MainThread] = "returned" => result[MainThread] = TimedOutMsg

\* C4: after unsafe_execute returns, every operation reliability_guard
\* disabled has its pre-call value again.
C4_OpsRestored ==
    pc[MainThread] = "returned" =>
        \A o \in GuardedOps : ops[o] = precall[MainThread][o]

\* C5: in every interleaving of two unsafe_execute invocations each call
\* saves the enabled os.chdir, os.rmdir and shutil.rmtree, and once both
\* calls have returned those three operations are enabled again.
C5_NoRace ==
    /\ \A t \in Threads :
         saved[t] /= NothingSaved => \A o \in SavedOps : saved[t][o] = Real
    /\ (\A t \in Threads : pc[t] = "returned") =>
         \A o \in SavedOps : ops[o] = Real

\* C6: on every exit path of the timed block the timer armed by time_limit
\* is disarmed before unsafe_execute returns: the timer is armed only while
\* the call is in the timed block, so it is off when the call has returned
\* (or raised) and when a later call starts.
C6_TimerDisarmed ==
    pc[MainThread] \notin {"exec", "finally"} => timer = "off"

\* C6 witness: a second call of the process has returned after its program
\* raised in the timed block
C6_Witness ==
    /\ pc[MainThread] = "returned"
    /\ pending[MainThread].type = "AssertionError"
    /\ ndirs = 2
    /\ timer = "off"

SentinelAt(k) ==
    /\ calls[k].op \in {"analyze", "implement", "test"}
    /\ calls[k].ret = ErrorSentinel

\* C8: if analyst.analyze, coder.implement in any round or tester.test in
\* any round returns the error sentinel, the code run_session returns is the
\* error sentinel, for every max_round >= 1.
C8_FailureGivesSentinel ==
    (/\ spc = "done"
     /\ max_round >= 1
     /\ \E k \in 1..Len(calls) : SentinelAt(k)) => code = ErrorSentinel

\* C9: once the plan, a candidate or a report is the error sentinel,
\* run_session makes no further Role Client call and no call of
\* unsafe_execute.
C9_NoCallAfterSentinel ==
    \A k \in 1..Len(calls) :
        SentinelAt(k) => (k = Len(calls) /\ pc[MainThread] = "idle")

\* the logged calls of the given kind
CallsOf(op) == {k \in 1..Len(calls) : calls[k].op = op}

\* C10: with max_round = N >= 1, round N-1 performs no tester call and no
\* call of unsafe_execute; a session that reaches round N-1 with a non-empty
\* artifact records that round with its code and no report and returns the
\* current artifact; a session performs at most N-1 test executions.
C10_LastRoundUntested ==
    max_round >= 1 =>
        /\ \A k \in 1..Len(calls) :
             calls[k].op \in {"test", "execute"} => calls[k].round + 1 < max_round
        /\ pc[MainThread] /= "idle" => i + 1 < max_round
        /\ Cardinality(CallsOf("test")) + 1 <= max_round
        /\ Cardinality(CallsOf("execute")) + 1 <= max_round
        /\ (/\ spc \in {"finish", "done"}
            /\ calls[Len(calls)].op = "implement"
            /\ calls[Len(calls)].round + 1 = max_round
            /\ Strip(code) /= ""
            /\ code /= ErrorSentinel) =>
               /\ (max_round - 1) \in DOMAIN session_history.rounds
               /\ session_history.rounds[max_round - 1] = [code |-> code]

\* C10 witness: a session of three rounds has tested rounds 0 and 1 and
\* returned the artifact of round 2, recorded without a report
C10_Witness ==
    /\ spc = "done"
    /\ max_round = 3
    /\ Cardinality(CallsOf("execute")) = 2
    /\ 2 \in DOMAIN session_history.rounds
    /\ session_history.rounds[2] = [code |-> code]
    /\ code = naivecode

\* the first candidate has an extractable method name
FirstCandidateValid ==
    /\ Len(calls) >= 2
    /\ calls[2].op = "implement"
    /\ find_method_name(calls[2].ret) /= None

\* no program has been executed but that of round 0, and it passes (while at
\* most one tester call was made, the program of the frame is round 0's)
Round0Passing ==
    /\ Cardinality(CallsOf("test")) <= 1
    /\ prog[MainThread].kind \in {"none", "pass"}

\* C11 as stated: when the first candidate is valid and passes, a session
\* with any max_round >= 1 ends after one implement call and its round 0 is
\* classified Passed.
C11_FirstPassClassifiedPassed ==
    (max_round >= 1 /\ FirstCandidateValid /\ Round0Passing) =>
        /\ Cardinality(CallsOf("implement")) = 1
        /\ spc = "done" =>
             /\ 0 \in DOMAIN session_history.rounds
             /\ "report" \in DOMAIN session_history.rounds[0]
             /\ session_history.rounds[0].report = ReportPrefix \o PassedMsg

\* C11: when the first candidate is valid and passes, a session ends in
\* round 0 after one implement call; with max_round >= 2 the round is
\* recorded with the report of a pass, with max_round = 1 the round is not
\* tested and is recorded with its code and no report.
C11_FirstPassEndsRound0 ==
    (max_round >= 1 /\ FirstCandidateValid /\ Round0Passing) =>
        /\ Cardinality(CallsOf("implement")) = 1
        /\ i = 0
        /\ calls[Len(calls)].op = "execute" => spc \in {"finish", "done"}
        /\ spc = "done" =>
             /\ DOMAIN session_history.rounds = {0}
             /\ session_history.rounds[0] =
                  IF max_round = 1
                  THEN [code |-> calls[2].ret]
                  ELSE [code |-> calls[2].ret,
                        report |-> ReportPrefix \o PassedMsg]

\* C11 witness: a session of three rounds has returned the first candidate,
\* which passed in round 0
C11_Witness ==
    /\ spc = "done"
    /\ max_round = 3
    /\ FirstCandidateValid
    /\ Round0Passing
    /\ Cardinality(CallsOf("execute")) = 1
    /\ code = calls[2].ret
    /\ session_history.rounds[0].report = ReportPrefix \o PassedMsg

\* no candidate returned so far has an extractable method name
NeverExtractable ==
    \A k \in CallsOf("implement") : find_method_name(calls[k].ret) = None

\* C12 as stated: when no candidate ever has a method name, a session with
\* max_round = 1 returns the sentinel and a session with max_round > 1 ends
\* only after max_round implement calls.
C12_ExhaustsRounds ==
    (max_round >= 1 /\ spc = "done" /\ NeverExtractable) =>
        IF max_round = 1
        THEN code = ErrorSentinel
        ELSE Cardinality(CallsOf("implement")) = max_round

\* C12: when no candidate ever has a method name, a session with any
\* max_round >= 1 makes one implement call, no tester call and no execution,
\* records no round and returns the sentinel.
C12_NeverExtractableEndsRound0 ==
    (max_round >= 1 /\ NeverExtractable) =>
        /\ Cardinality(CallsOf("implement")) <= 1
        /\ CallsOf("test") = {}
        /\ CallsOf("execute") = {}
        /\ spc /= "crashed"
        /\ spc = "done" =>
             /\ Cardinality(CallsOf("implement")) = 1
             /\ code = ErrorSentinel
             /\ session_history.rounds = EmptyDict

\* C12 witness: a session of two rounds has returned after one implement
\* call that failed
C12_Witness ==
    /\ spc = "done"
    /\ max_round = 2
    /\ NeverExtractable
    /\ Len(calls) = 2
    /\ calls[2].ret = ErrorSentinel
    /\ code = ErrorSentinel

\* C13: if the round-0 candidate has no extractable top-level function,
\* run_session returns the sentinel for every max_round >= 1; the implement
\* call of round 0 is the last call: no tester call, no execution, no
\* further candidate.
C13_Round0NoNameIsError ==
    (/\ max_round >= 1
     /\ Len(calls) >= 2
     /\ find_method_name(calls[2].ret) = None) =>
        /\ Len(calls) = 2
        /\ calls[2].round = 0
        /\ spc \in {"finish", "done"}
        /\ code = ErrorSentinel
        /\ pc[MainThread] = "idle"

\* C13 witness: a session of three rounds has returned the sentinel after a
\* round-0 candidate that is code with no function
C13_Witness ==
    /\ spc = "done"
    /\ max_round = 3
    /\ Len(calls) = 2
    /\ calls[2].ret = "x = 1"
    /\ naivecode = "x = 1"
    /\ code = ErrorSentinel

\* C14: if the candidate of a round r > 0 has no extractable top-level
\* function, the artifact accepted before stays the current code and no
\* tester call and no execution is made in round r.
C14_RejectedRoundSkipsTest ==
    \A k \in 1..Len(calls) :
        (/\ calls[k].op = "implement"
         /\ calls[k].round > 0
         /\ find_method_name(calls[k].ret) = None) =>
            /\ \A j \in 1..Len(calls) :
                 calls[j].op \in {"test", "execute"} =>
                     calls[j].round /= calls[k].round
            /\ k = Len(calls) =>
                 code = session_history.rounds[calls[k].round - 1].code

\* C15: for every max_round >= 0 and every behaviour of the roles and of the
\* executed program, run_session ends (no exception leaves it, it is never
\* left running a program with no deadline pending) after at most max_round
\* implement calls, and the code it returns is the sentinel or has an
\* extractable method name.
C15_EndsWithArtifactOrSentinel ==
    /\ spc /= "crashed"
    /\ pc[MainThread] = "exec" /\ RunsPastDeadline(prog[MainThread]) =>
         timer /= "off"
    /\ Cardinality(CallsOf("implement")) <= max_round
    /\ spc = "done" =>
         (code = ErrorSentinel \/ find_method_name(code) /= None)

\* C16: in every state the current code is the empty initial value, the
\* sentinel or a candidate with an extractable method name, it is the
\* latest candidate only if that candidate has a method name, and every
\* code stored in a round record has an extractable method name.
C16_OnlyAcceptedCode ==
    /\ code \in {"", ErrorSentinel} \/ find_method_name(code) /= None
    /\ (code = naivecode /\ code /= "") =>
         (find_method_name(naivecode) /= None \/ code = ErrorSentinel)
    /\ \A r \in DOMAIN session_history.rounds :
         find_method_name(session_history.rounds[r].code) /= None

\* C16 witness: in round 1 a candidate with no function was returned; the
\* current code and the recorded code of round 0 are the round-0 candidate
C16_Witness ==
    /\ i = 1
    /\ spc = "test"
    /\ naivecode = "x = 1"
    /\ code = "def f(): pass"
    /\ 0 \in DOMAIN session_history.rounds
    /\ session_history.rounds[0].code = "def f(): pass"

\* C23: unsafe_execute returns 'Code Test Passed.' only if the program
\* completed without raising, and run_session leaves the loop through the
\* success exit only in a round whose program raised no error.
C23_PassedOnlyWithoutRaise ==
    /\ (pc[MainThread] = "returned" /\ result[MainThread] = PassedMsg) =>
         pending[MainThread] = NoException
    /\ (/\ spc \in {"finish", "done"}
        /\ calls[Len(calls)].op = "execute"
        /\ calls[Len(calls)].ret = PassedMsg
        /\ code /= ErrorSentinel) =>
           pending[MainThread] = NoException

\* C24: in every round that executes a test program, the name in the final
\* check(<name>) call is the name find_method_name extracts from the code
\* under test.
C24_CheckNameOfArtifact ==
    spc = "execute" => method_name = find_method_name(code)

\* the positions of the top-level function definitions of the parsed code
FunctionDefsAt ==
    IF parsed = ParseError THEN {}
    ELSE {k \in 1..Len(parsed) : parsed[k] /= "stmt"}

\* the greatest element of a non-empty set of numbers
Greatest(S) == CHOOSE k \in S : \A j \in S : j <= k

\* C26: find_method_name returns None exactly when the code does not parse
\* or has no top-level function definition; otherwise it returns the name
\* of the last top-level function, except that with at least two of them,
\* the last named main, it returns the name of the one before the last.
C26_LastFunctionButMain ==
    fpc = "returned" =>
        /\ found = None <=> FunctionDefsAt = {}
        /\ FunctionDefsAt /= {} =>
             LET last == Greatest(FunctionDefsAt)
             IN  IF Cardinality(FunctionDefsAt) >= 2 /\ parsed[last] = "main"
                 THEN found = parsed[Greatest(FunctionDefsAt \ {last})]
                 ELSE found = parsed[last]

\* C26 witness: for a code with the functions f and main, in this order and
\* a statement between them, f was returned
C26_Witness ==
    /\ fpc = "returned"
    /\ parsed = <<"f", "stmt", "main">>
    /\ found = "f"

\* C27: run_coder_tester returns without raising for every max_round >= 1
\* and every role output, and every round that reached the tester (a round
\* that is not the last, with a non-empty artifact) is executed and
\* recorded.
C27_CoderTesterReturns ==
    max_round >= 1 =>
        /\ spc /= "crashed"
        /\ \A k \in CallsOf("test") :
             k < Len(calls) => calls[k].round \in DOMAIN session_history.rounds

(***************************************************************************)
(* Claims about the reports given to the coder.                            *)
(***************************************************************************)

\* the messages of a list that were formatted from an execution report
IsReportMessage(msg) == msg.content[1] = "INSTRUCTREPORT"
ReportsIn(msgs) == SelectSeq(msgs, IsReportMessage)

\* the latest implement call in the log
LastImplement ==
    CHOOSE k \in CallsOf("implement") : \A j \in CallsOf("implement") : j <= k

\* the instruction of the latest request is formatted from the plan in
\* round 0 and from the report of the preceding round afterwards
LatestReportGiven ==
    LET j == calls[LastImplement].round
        instruction == prompt[Len(prompt) - 1]
    IN  /\ Len(prompt) >= 3
        /\ prompt[Len(prompt)].content[1] = "INSTRUCTCODE"
        /\ instruction.content =
             IF j = 0
             THEN <<"INSTRUCTPLAN", Strip(plan)>>
             ELSE <<"INSTRUCTREPORT", Strip(session_history.rounds[j - 1].report)>>

\* C17 as stated: the report of round r is given to coder.implement in
\* round r+1 (round 0 receives the plan), and the message list sent in a
\* round holds no report of an earlier round than the preceding one.
C17_ReportOnlyNextRound ==
    CallsOf("implement") /= {} =>
        /\ LatestReportGiven
        /\ Len(ReportsIn(prompt)) <= 1

\* C17: the report of round r is given to coder.implement in round r+1
\* (round 0 receives the plan) and stays in the coder's history: the message
\* list sent in round j holds the reports of the rounds 0..j-1, in order.
C17_ReportsAccumulate ==
    CallsOf("implement") /= {} =>
        LET j == calls[LastImplement].round
        IN  /\ LatestReportGiven
            /\ Len(ReportsIn(prompt)) = j
            /\ \A r \in 1..j :
                 ReportsIn(prompt)[r].content[2] =
                     Strip(session_history.rounds[r - 1].report)

\* C17 witness: the request of round 2 has been sent; it holds the reports
\* of round 0 and of round 1
C17_Witness ==
    /\ CallsOf("implement") /= {}
    /\ calls[LastImplement].round = 2
    /\ Len(ReportsIn(prompt)) = 2
    /\ ReportsIn(prompt)[1].content[2] = session_history.rounds[0].report
    /\ ReportsIn(prompt)[2].content[2] = report

(***************************************************************************)
(* Claims about the round records.                                         *)
(***************************************************************************)

\* the recorded rounds are Round_0..Round_k with no gap, and a record with
\* no report is that of round max_round-1
RoundsWellFormed ==
    LET rounds == session_history.rounds
    IN  /\ DOMAIN rounds = 0..(Cardinality(DOMAIN rounds) - 1)
        /\ \A r \in DOMAIN rounds :
             "report" \notin DOMAIN rounds[r] => r = max_round - 1

\* a step keeps every record that exists
RoundsKept ==
    \A r \in DOMAIN session_history.rounds :
        /\ r \in DOMAIN session_history'.rounds
        /\ session_history'.rounds[r] = session_history.rounds[r]

\* C18: at every point of run_session the recorded rounds are
\* Round_0..Round_k with no gap in the indices, a record without a report
\* exists only for round max_round-1, and no step modifies or removes a
\* record that exists: each record is written once.
C18_RoundRecords == []RoundsWellFormed /\ [][RoundsKept]_vars

\* C18 witness: three rounds are recorded, the last one with no report
C18_Witness ==
    /\ max_round = 3
    /\ DOMAIN session_history.rounds = {0, 1, 2}
    /\ "report" \in DOMAIN session_history.rounds[1]
    /\ "report" \notin DOMAIN session_history.rounds[2]

(***************************************************************************)
(* Claims about build_test_method.                                         *)
(***************************************************************************)

\* the lines of a text: the tokens between the newlines
RECURSIVE SplitLines(_)
SplitLines(text) ==
    IF \A k \in 1..Len(text) : text[k] /= NL THEN <<text>>
    ELSE LET n == CHOOSE k \in 1..Len(text) :
                    /\ text[k] = NL
                    /\ \A j \in 1..(k - 1) : text[j] /= NL
         IN  <<SubSeq(text, 1, n - 1)>>
                 \o SplitLines(SubSeq(text, n + 1, Len(text)))

\* the line 'def check(<name>):'
DefLine(name) == <<"def check(", name, "):">>

\* C19: for every entry-point name and every imports value,
\* build_test_method with an empty test list returns the definition line of
\* check followed by one statement, an indented 'return True': the routine
\* reports success without using its argument.
C19_EmptyListReturnsTrue ==
    (bpc = "returned" /\ test_list = <<>>) =>
        SplitLines(test_method) =
            <<DefLine(check_name), <<TAB, "return True">>, <<>>>>

\* C19 witness: the call with no test, two import lines and the name g has
\* returned
C19_Witness ==
    /\ bpc = "returned"
    /\ test_list = <<>>
    /\ Len(test_imports) = 2
    /\ check_name = "g"
    /\ test_method /= <<>>

\* C25: when test_imports is non-empty, the text build_test_method returns
\* holds every import line, in input order, before the 'def check(' line.
C25_ImportsBeforeCheck ==
    (bpc = "returned" /\ test_imports /= <<>>) =>
        LET lines == SplitLines(test_method)
            n == Len(test_imports)
        IN  /\ Len(lines) > n
            /\ \A k \in 1..n : lines[k] = <<test_imports[k]>>
            /\ lines[n + 1] = DefLine(check_name)

\* the statements of a routine: its lines but the first, without the tab,
\* joined by newlines
RECURSIVE Unindented(_)
Unindented(lines) ==
    IF lines = <<>> THEN <<>>
    ELSE IF Len(lines) = 1 THEN Tail(lines[1])
    ELSE Tail(lines[1]) \o <<NL>> \o Unindented(Tail(lines))

\* the test statements, joined by newlines
RECURSIVE JoinStatements(_)
JoinStatements(tl) ==
    IF tl = <<>> THEN <<>>
    ELSE IF Len(tl) = 1 THEN tl[1]
    ELSE tl[1] \o <<NL>> \o JoinStatements(Tail(tl))

\* C20: for every non-empty list of test statements build_test_method
\* returns one definition line 'def check(<name>):' followed by every test
\* statement, once and in input order, and every line of the body begins
\* with one tab, also when a statement has several lines.
C20_BodyIndented ==
    (bpc = "returned" /\ test_list /= <<>>) =>
        LET lines == SplitLines(test_method)
        IN  /\ Len(lines) >= 2
            /\ lines[1] = DefLine(check_name)
            /\ \A k \in 2..Len(lines) :
                 /\ lines[k] /= DefLine(check_name)
                 /\ lines[k] /= <<>>
                 /\ lines[k][1] = TAB
                 /\ \A j \in 2..Len(lines[k]) : lines[k][j] /= TAB
            /\ Unindented(Tail(lines)) = JoinStatements(test_list)

(***************************************************************************)
(* Claims about core/backend.py.                                           *)
(***************************************************************************)

\* the requests issued stay within the budget, and a return gives exactly
\* the requested number of completions
ChatBounded ==
    /\ requests <= 20 * (num_completions \div 10 + 1)
    /\ bkpc = "returned" => chat_result = num_completions

\* call_chatgpt has returned or raised
ChatEnded == bkpc \in {"returned", "raised"}

\* C21: for every sequence of API responses call_chatgpt issues at most
\* 20*(n div 10 + 1) requests for n requested completions, a return gives
\* exactly n completions, and the call eventually returns or raises.
C21_BoundedRetries == []ChatBounded /\ <>ChatEnded

\* C21 witness: for 11 completions the budget of 40 requests was used up,
\* the last ones rate limited, and the call raised
C21_Witness ==
    /\ bkpc = "raised"
    /\ num_completions = 11
    /\ requests = 40
    /\ completions = 10
    /\ Len(waits) = 3

\* C22: the wait after a rate-limit response never exceeds 60 seconds and,
\* below that cap, grows exponentially with the attempt number: of three
\* consecutive rate-limited attempts the waits grow by a constant factor.
C22_ExponentialBackoff ==
    /\ \A k \in 1..Len(waits) : waits[k] <= 60
    /\ (Len(waits) = 3 /\ waits[3] < 60) =>
         /\ waits[1] < waits[2]
         /\ waits[2] < waits[3]
         /\ waits[2] * waits[2] = waits[1] * waits[3]

\* C29: whenever the input messages leave available tokens > 0, the
\* max_tokens adjust_max_tokens returns satisfies input_tokens + max_tokens
\* <= the context limit of the model.
C29_WithinModelLimit ==
    (/\ bkpc = "adjusted"
     /\ ModelLimit(model) - count_tokens(messages) - Margin > 0) =>
        count_tokens(messages) + adjusted_max_tokens <= ModelLimit(model)

\* s is a subsequence of t, in the order of t
RECURSIVE IsSubsequence(_, _)
IsSubsequence(s, t) ==
    IF s = <<>> THEN TRUE
    ELSE IF t = <<>> THEN FALSE
    ELSE IF s[1] = t[1] THEN IsSubsequence(Tail(s), Tail(t))
    ELSE IsSubsequence(s, Tail(t))

\* s is a suffix of t
IsSuffix(s, t) ==
    /\ Len(s) <= Len(t)
    /\ s = SubSeq(t, Len(t) - Len(s) + 1, Len(t))

\* C30: truncate_messages returns a subsequence of its input in the original
\* order; when the input starts with a system message the result starts
\* with that message, followed by the longest suffix of the remaining
\* messages that fits the budget (each message counted as the function
\* counts it).
C30_SystemThenSuffix ==
    (bkpc = "truncated" /\ messages /= <<>>) =>
        /\ IsSubsequence(truncated, messages)
        /\ messages[1].role = "system" =>
             /\ truncated /= <<>>
             /\ truncated[1] = messages[1]
             /\ LET rest == Tail(messages)
                    suffix == Tail(truncated)
                    counted(l) == count_tokens(<<messages[1]>>)
                                    + Len(l) * ReplyTokens + SumTokens(l)
                IN  /\ IsSuffix(suffix, rest)
                    /\ counted(suffix) <= max_tokens \/ suffix = <<>>
                    /\ Len(suffix) < Len(rest) =>
                         counted(SubSeq(rest, Len(rest) - Len(suffix),
                                        Len(rest))) > max_tokens

\* ---------------------------------------------------------------------
\* ProjectSession.run_project_session (project_session.py 85-260)

\* what one call of developer.implement_project does: it returns the files
\* of a project, returns "error", or raises (a context-length error or any
\* other exception)
ImplementOutcomes ==
    [kind : {"files"}, files : Projects]
    \cup [kind : {"error", "context_length_exceeded", "exception"},
          files : {NoFiles}]

\* the entry session_history['round_N'] of a tested round
RoundEntry(files, test_report, automated_test_results, quality) ==
    [files |-> files,
     test_report |-> [traditional_tests |-> test_report,
                      automated_tests |-> automated_test_results,
                      quality_metrics |-> quality]]

\* phases 0 to 2: the architecture is designed; the loop starts at round 0
p_design ==
    /\ ppc = "start"
    /\ \E architecture_plan \in {"plan", "error"} :
         ppc' = IF architecture_plan = "error" THEN "crashed"
                ELSE IF project_max_round = 0 THEN "final"
                ELSE "develop"
    /\ UNCHANGED <<envvars, framevars, sessionvars, harnessvars, backendvars,
                   findvars, project_max_round, round_num, project_files,
                   current_max_tokens, quality_report, project_history,
                   implement_calls, feedback_history>>

\* the first half of a round: the tokens are adjusted, the developer
\* implements the project (once more after a context-length error), the
\* files are kept and their quality is checked; the last round ends the loop
p_develop ==
    /\ ppc = "develop"
    /\ \E first \in ImplementOutcomes, second \in ImplementOutcomes :
         /\ first.kind # "context_length_exceeded" => second = first
         /\ LET adjusted == adjust_tokens_for_round(current_max_tokens)
                retried == first.kind = "context_length_exceeded"
                outcome == IF retried THEN second ELSE first
                tokens == IF retried THEN retry_tokens(adjusted) ELSE adjusted
                raised == outcome.kind \in {"context_length_exceeded",
                                            "exception"}
            IN  /\ implement_calls' = implement_calls + (IF retried THEN 2 ELSE 1)
                /\ IF raised \/ outcome.kind = "error"
                   THEN /\ ppc' = IF round_num = 0 \/ (raised /\ ~retried)
                                  THEN "crashed" ELSE "final"
                        /\ current_max_tokens' = tokens
                        /\ UNCHANGED <<project_files, quality_report>>
                   ELSE /\ project_files' = outcome.files
                        /\ quality_report' = check_multiple_files(outcome.files)
                        /\ IF round_num < project_max_round - 1
                           THEN /\ ppc' = "test"
                                /\ current_max_tokens' = tokens
                           ELSE /\ ppc' = "final"
                                /\ current_max_tokens' =
                                     adjust_tokens_for_round(tokens)
    /\ UNCHANGED <<envvars, framevars, sessionvars, harnessvars, backendvars,
                   findvars, project_max_round, round_num, project_history,
                   feedback_history>>

\* the second half of a tested round: the tester and the automated tests
\* run, the round is recorded, and the loop ends or the developer gets the
\* feedback for the next round
p_test ==
    /\ ppc = "test"
    /\ \E test_report \in TestReports :
         LET automated_test_results == run_tests(project_files)
         IN  /\ project_history' =
                   (round_num :> RoundEntry(project_files, test_report,
                                            automated_test_results,
                                            quality_report))
                   @@ project_history
             /\ IF test_report = "error"
                   \/ (/\ traditional_passed(test_report)
                       /\ automated_passed(automated_test_results)
                       /\ quality_good(quality_report))
                THEN /\ ppc' = "final"
                     /\ UNCHANGED <<round_num, current_max_tokens,
                                    feedback_history>>
                ELSE /\ feedback_history' = <<test_report>>
                     /\ current_max_tokens' =
                          adjust_tokens_for_round(current_max_tokens)
                     /\ round_num' = round_num + 1
                     /\ ppc' = "develop"
    /\ UNCHANGED <<envvars, framevars, sessionvars, harnessvars, backendvars,
                   findvars, project_max_round, project_files, quality_report,
                   implement_calls>>

\* after the loop: the files and the history are returned
p_return ==
    /\ ppc = "final"
    /\ ppc' = "done"
    /\ UNCHANGED <<envvars, framevars, sessionvars, harnessvars, backendvars,
                   findvars, project_max_round, round_num, project_files,
                   current_max_tokens, quality_report, project_history,
                   implement_calls, feedback_history>>

\* one ProjectSession, constructed with some max_round
InitProjectSession ==
    /\ InitEnv
    /\ InitFrames
    /\ pc = [t \in Threads |-> "absent"]
    /\ InitSession
    /\ max_round = 0
    /\ spc = "none"
    /\ InitHarness
    /\ InitBackend
    /\ InitFind
    /\ ppc = "start"
    /\ project_max_round \in 0..MaxRound
    /\ round_num = 0
    /\ project_files = NoFiles
    /\ current_max_tokens = BaseMaxTokens
    /\ quality_report = [status |-> "none"]
    /\ project_history = <<>>
    /\ implement_calls = 0
    /\ feedback_history = <<>>

NextProject == p_design \/ p_develop \/ p_test \/ p_return

SpecProject == InitProjectSession /\ [][NextProject]_vars

\* the tools found nothing wrong in a tested round: the tester's report says
\* the tests passed, the automated tests found no issue and the quality
\* check gave every file the full score
NothingWrong(entry) ==
    /\ traditional_passed(entry.test_report.traditional_tests)
    /\ Get(entry.test_report.automated_tests, "passed", FALSE)
    /\ Get(entry.test_report.quality_metrics, "overall_score", 0) = FullScore

\* C28: a tested round in which the tester's report says all tests passed,
\* the automated test suite found no issue and the quality check is good
\* ends the development loop at that round, and no developer round runs
\* after it.
C28_SuccessEndsLoop ==
    \A r \in DOMAIN project_history :
        NothingWrong(project_history[r]) =>
            round_num = r /\ ppc \in {"final", "done"}

====
